---- MODULE Spec2Model ----
(***************************************************************************)
(* Model of pkg/generate/generate.go: Generate (the orchestrator) and      *)
(* generateImportBlocks (one pass: filter, concurrent enumeration with a   *)
(* WaitGroup and a buffered channel, aggregation, materialization).        *)
(*                                                                         *)
(* A Go string is modelled as a sequence of one-character strings, so that *)
(* the regexp replacement, strings.* calls and filepath.Match are computed *)
(* character by character.                                                 *)
(***************************************************************************)
EXTENDS Integers, Sequences, FiniteSets, TLC

(***************************************************************************)
(* Call by value.  Go evaluates the arguments of a call once, before the   *)
(* call; Call<n>(F, ...) does the same for the operator F.                 *)
(***************************************************************************)
Call1(F(_), a) == CHOOSE r \in { F(x) : x \in {a} } : TRUE

Call2(F(_, _), a, b) == CHOOSE r \in { F(x, y) : x \in {a}, y \in {b} } : TRUE

Call3(F(_, _, _), a, b, c) ==
    CHOOSE r \in { F(x, y, z) : x \in {a}, y \in {b}, z \in {c} } : TRUE

(***************************************************************************)
(* Characters.  Ascii lists the characters of the model in ASCII order;    *)
(* Ord gives the position used for byte comparisons.                       *)
(***************************************************************************)
Ascii ==
    << " ", "*", "-", ".", "/", "0", "1", "2", "9", "?", "A", "B", "Z",
       "[", "\\", "]", "^", "_",
       "a", "b", "c", "d", "e", "f", "g", "h", "i", "j", "k", "l", "m",
       "n", "o", "p", "q", "r", "s", "t", "u", "v", "w", "x", "y", "z" >>

Ord(c) == CHOOSE i \in 1..Len(Ascii) : Ascii[i] = c

InRange(c, lo, hi) == Ord(lo) <= Ord(c) /\ Ord(c) <= Ord(hi)

\* string comparison a < b of Go: bytewise lexicographic
StrLess(a, b) ==
    \E k \in 1..Len(b) :
        /\ \A j \in 1..(k - 1) : j <= Len(a) /\ a[j] = b[j]
        /\ (k > Len(a) \/ Ord(a[k]) < Ord(b[k]))

\* strings.Contains(s, c) for a one-character c
Contains(s, c) == \E i \in 1..Len(s) : s[i] = c

\* strings.ReplaceAll(s, old, new) for one-character old and new
ReplaceAll(s, old, new) == [i \in 1..Len(s) |-> IF s[i] = old THEN new ELSE s[i]]

\* strings.Split(s, sep)[0]: the text before the first sep (all of s without one)
SplitFirst(s, sep) ==
    SubSeq(s, 1, Cardinality({ k \in 1..Len(s) : \A j \in 1..k : s[j] # sep }))

\* the regexp [^a-zA-Z0-9_-]: the characters allowedTerraformChars matches
Disallowed(c) ==
    ~ (\/ InRange(c, "a", "z")
       \/ InRange(c, "A", "Z")
       \/ InRange(c, "0", "9")
       \/ c = "_"
       \/ c = "-")

\* allowedTerraformChars.ReplaceAllString(id, "_")
\* a sanitizer that drops the disallowed characters instead of replacing them
ReplaceAllString_Drop(id) == SelectSeq(id, LAMBDA c : ~Disallowed(c))

ReplaceAllString(id) == [i \in 1..Len(id) |-> IF Disallowed(id[i]) THEN "_" ELSE id[i]]

(***************************************************************************)
(* filepath.Match (path/filepath of the Go standard library, non-Windows), *)
(* as called by filterResources and filterResourceByName.  A result is     *)
(* [matched, err]; err is ErrBadPattern.                                   *)
(***************************************************************************)
Separator == "/"

BadPattern == [matched |-> FALSE, err |-> TRUE]

\* the leading stars of scanChunk are dropped
SkipStars(p) ==
    SubSeq(p, 1 + Cardinality({ k \in 1..Len(p) : \A j \in 1..k : p[j] = "*" }), Len(p))

\* the Scan loop of scanChunk: the index (1-based) of the first '*' outside a
\* class at or after i, or Len(p)+1
RECURSIVE ChunkEnd(_, _, _)
ChunkEnd(p, i, inrange) ==
    IF i > Len(p) THEN i
    ELSE IF p[i] = "\\" THEN ChunkEnd(p, IF i + 1 <= Len(p) THEN i + 2 ELSE i + 1, inrange)
    ELSE IF p[i] = "[" THEN ChunkEnd(p, i + 1, TRUE)
    ELSE IF p[i] = "]" THEN ChunkEnd(p, i + 1, FALSE)
    ELSE IF p[i] = "*" /\ ~inrange THEN i
    ELSE ChunkEnd(p, i + 1, inrange)

scanChunkAt(pattern, p, i) ==
    [ star  |-> Len(pattern) > 0 /\ pattern[1] = "*",
      chunk |-> SubSeq(p, 1, i - 1),
      rest  |-> SubSeq(p, i, Len(p)) ]

scanChunkFrom(pattern, p) == Call3(scanChunkAt, pattern, p, ChunkEnd(p, 1, FALSE))

scanChunk(pattern) == Call2(scanChunkFrom, pattern, SkipStars(pattern))

getEsc(chunk) ==
    IF Len(chunk) = 0 \/ chunk[1] = "-" \/ chunk[1] = "]"
    THEN [err |-> TRUE, r |-> "", chunk |-> << >>]
    ELSE IF chunk[1] = "\\"
    THEN IF Len(chunk) = 1 THEN [err |-> TRUE, r |-> "", chunk |-> << >>]
         ELSE [err |-> Len(chunk) = 2, r |-> chunk[2], chunk |-> Tail(Tail(chunk))]
    ELSE [err |-> Len(chunk) = 1, r |-> chunk[1], chunk |-> Tail(chunk)]

ClassErr == [err |-> TRUE, match |-> FALSE, chunk |-> << >>]

\* the loop of matchChunk that parses the ranges of a class; hasr is FALSE once
\* the match has failed (r is then the zero rune, below every range)
RECURSIVE parseRanges(_, _, _, _, _)
parseRanges(chunk, r, hasr, match, nrange) ==
    IF Len(chunk) > 0 /\ chunk[1] = "]" /\ nrange > 0
    THEN [err |-> FALSE, match |-> match, chunk |-> Tail(chunk)]
    ELSE Call1(LAMBDA lo :
           IF lo.err THEN ClassErr
           ELSE IF lo.chunk[1] = "-"
           THEN Call1(LAMBDA hi :
                  IF hi.err THEN ClassErr
                  ELSE parseRanges(hi.chunk, r, hasr,
                                   match \/ (hasr /\ Ord(lo.r) <= Ord(r) /\ Ord(r) <= Ord(hi.r)),
                                   nrange + 1),
                  getEsc(Tail(lo.chunk)))
           ELSE parseRanges(lo.chunk, r, hasr, match \/ (hasr /\ lo.r = r), nrange + 1),
           getEsc(chunk))

ChunkErr == [rest |-> << >>, ok |-> FALSE, err |-> TRUE]

\* matchChunk(chunk, s) from position i of chunk (1-based) and position j of s,
\* with the loop variable failed: [rest, ok, err]
RECURSIVE matchChunkLoop(_, _, _, _, _)

\* case '[' of matchChunk: the class begins at position i (after "[" and "^")
matchClass(chunk, i, s, j, failed, negated) ==
    Call1(LAMBDA cls :
            IF cls.err THEN ChunkErr
            ELSE matchChunkLoop(chunk, Len(chunk) - Len(cls.chunk) + 1, s,
                                IF failed THEN j ELSE j + 1,
                                failed \/ (cls.match = negated)),
          parseRanges(SubSeq(chunk, i, Len(chunk)), IF failed THEN "" ELSE s[j],
                      ~failed, FALSE, 0))

\* the number of characters from position i of chunk that the default case of
\* matchChunk compares literally, one iteration each
LiteralRun(chunk, i) ==
    Cardinality({ k \in i..Len(chunk) : \A m \in i..k : chunk[m] \notin {"[", "?", "\\"} })

\* a run of n iterations of the default case: each compares one character, and
\* failed is set by the first that differs or finds s empty
matchLiterals(chunk, i, s, j, failed, n) ==
    IF ~failed /\ j + n - 1 <= Len(s) /\ SubSeq(chunk, i, i + n - 1) = SubSeq(s, j, j + n - 1)
    THEN matchChunkLoop(chunk, i + n, s, j + n, FALSE)
    ELSE matchChunkLoop(chunk, i + n, s, j, TRUE)

\* one iteration of the loop of matchChunk; failed includes len(s) == 0
matchChunkStep(chunk, i, s, j, failed) ==
    CASE chunk[i] = "[" ->
           IF i < Len(chunk) /\ chunk[i + 1] = "^"
           THEN matchClass(chunk, i + 2, s, j, failed, TRUE)
           ELSE matchClass(chunk, i + 1, s, j, failed, FALSE)
      [] chunk[i] = "?" ->
           matchChunkLoop(chunk, i + 1, s, IF failed THEN j ELSE j + 1,
                          failed \/ s[j] = Separator)
      [] chunk[i] = "\\" ->
           IF i = Len(chunk) THEN ChunkErr
           ELSE matchChunkLoop(chunk, i + 2, s, IF failed THEN j ELSE j + 1,
                               failed \/ chunk[i + 1] # s[j])
      [] OTHER -> matchLiterals(chunk, i, s, j, failed, LiteralRun(chunk, i))

matchChunkLoop(chunk, i, s, j, failed) ==
    IF i > Len(chunk)
    THEN IF failed THEN [rest |-> << >>, ok |-> FALSE, err |-> FALSE]
         ELSE [rest |-> SubSeq(s, j, Len(s)), ok |-> TRUE, err |-> FALSE]
    ELSE matchChunkStep(chunk, i, s, j, failed \/ j > Len(s))

matchChunk(chunk, s) == matchChunkLoop(chunk, 1, s, 1, FALSE)

\* the closing loop of Match: the rest of the pattern is checked for syntax
RECURSIVE checkRest(_)
checkRest(pattern) ==
    IF Len(pattern) = 0 THEN [matched |-> FALSE, err |-> FALSE]
    ELSE Call1(LAMBDA sc :
                 IF matchChunk(sc.chunk, << >>).err THEN BadPattern
                 ELSE checkRest(sc.rest),
               scanChunk(pattern))

NotFound == [found |-> FALSE, rest |-> << >>, err |-> FALSE]

\* one iteration of "Look for match skipping i+1 bytes" (i counts from 0):
\* found, an error, or NotFound to go on with i+1
starAt(chunk, lastChunk, name, i) ==
    Call1(LAMBDA m :
            IF m.ok /\ ~(lastChunk /\ Len(m.rest) > 0)
            THEN [found |-> TRUE, rest |-> m.rest, err |-> FALSE]
            ELSE IF ~m.ok /\ m.err THEN [found |-> FALSE, rest |-> << >>, err |-> TRUE]
            ELSE NotFound,
          matchChunk(chunk, SubSeq(name, i + 2, Len(name))))

\* the loop "for i := 0; i < len(name) && name[i] != Separator; i++": the
\* outcome of the first iteration that does not go on, [found, rest, err]
starLoop(chunk, lastChunk, name) ==
    Call1(LAMBDA stops :
            IF stops = {} THEN NotFound
            ELSE starAt(chunk, lastChunk, name, CHOOSE i \in stops : \A k \in stops : i <= k),
          { i \in 0..(Len(name) - 1) :
                /\ \A k \in 0..i : name[k + 1] # Separator
                /\ starAt(chunk, lastChunk, name, i) # NotFound })

RECURSIVE Match(_, _)

\* the loop body of Match after "Look for match at current position" failed
matchAfterStar(sc, f) ==
    IF f.err THEN BadPattern
    ELSE IF f.found THEN Match(sc.rest, f.rest)
    ELSE checkRest(sc.rest)

\* the loop body of Match after scanChunk and matchChunk
matchStep(sc, m, name) ==
    IF m.ok /\ (Len(m.rest) = 0 \/ Len(sc.rest) > 0) THEN Match(sc.rest, m.rest)
    ELSE IF m.err THEN BadPattern
    ELSE IF sc.star
    THEN Call2(matchAfterStar, sc, starLoop(sc.chunk, Len(sc.rest) = 0, name))
    ELSE Call2(matchAfterStar, sc, NotFound)

matchScanned(sc, name) ==
    IF sc.star /\ Len(sc.chunk) = 0
    THEN [matched |-> ~Contains(name, Separator), err |-> FALSE]
    ELSE Call3(matchStep, sc, matchChunk(sc.chunk, name), name)

Match(pattern, name) ==
    IF Len(pattern) = 0 THEN [matched |-> Len(name) = 0, err |-> FALSE]
    ELSE Call2(matchScanned, scanChunk(pattern), name)

(***************************************************************************)
(* Inputs.  The catalog is an ordered collection of resource descriptors   *)
(* (common.Resource: Name, ListIDsFunc); a lister returns a fixed list of  *)
(* remote identifiers or an error.                                         *)
(***************************************************************************)
MaxIDs == 3

MaxStacks == 1

Dashboard == << "d", "a", "s", "h", "b", "o", "a", "r", "d" >>
Folder    == << "f", "o", "l", "d", "e", "r" >>
Team      == << "t", "e", "a", "m" >>

\* team has no lister (ListIDsFunc == nil)
Resource(name) == [Name |-> name, HasLister |-> name # Team]

Catalog == << Resource(Dashboard), Resource(Folder), Resource(Team) >>

Reverse(s) == [i \in 1..Len(s) |-> s[Len(s) + 1 - i]]

\* the resources arguments generateImportBlocks is called with
Catalogs == { Catalog, Reverse(Catalog) }

Prefix(s, n) == SubSeq(s, 1, IF n < Len(s) THEN n ELSE Len(s))

\* what the remote system holds for each type
RemoteIDs(name) ==
    IF name = Dashboard
    THEN Prefix(<< << "a", "b", "c" >>,
                   << "m", "y", "/", "w", "e", "i", "r", "d", " ", "i", "d" >>,
                   << "A", "-", "9", "_", "z" >> >>, MaxIDs)
    ELSE IF name = Folder
    THEN Prefix(<< << "x", "y", "z" >>, << "a", ".", "b" >>, << "a", "_", "b" >> >>, MaxIDs)
    ELSE << >>

Cloud == << "c", "l", "o", "u", "d" >>
StackPrefix == << "s", "t", "a", "c", "k", "-" >>

\* the provider arguments generateImportBlocks is called with
Providers == { << >>, Cloud, StackPrefix \o << "a" >>, StackPrefix \o << "a", ".", "b" >> }

\* inclusion filter lists (cfg.IncludeResources)
PatFolderAll    == << "f", "o", "l", "d", "e", "r", ".", "*" >>
PatAllAll       == << "*", ".", "*" >>
PatNoDotFolder  == << "f", "o", "l", "d", "e", "r" >>
PatNoDotTeam    == << "t", "e", "a", "m" >>
PatDashAbc      == << "d", "a", "s", "h", "*", ".", "*", "a", "b", "c" >>
PatQolderXyz    == << "?", "o", "l", "d", "e", "r", ".", "*", "x", "y", "z" >>
PatFolderBadCls == << "f", "o", "l", "d", "e", "r", ".", "[" >>
PatBadClsType   == << "[", ".", "x" >>
PatNothing      == << "n", "o", ".", "*" >>
PatClsDF        == << "[", "d", "f", "]", "*", ".", "*" >>
PatFolderAB     == << "f", "o", "l", "d", "e", "r", ".", "*", "a", "_", "b" >>

PatternLists ==
    { << >>,
      << PatFolderAll >>,
      << PatFolderAll, PatNoDotTeam >>,
      << PatNoDotFolder, PatAllAll >>,
      << PatAllAll, PatFolderAll >>,
      << PatDashAbc, PatQolderXyz >>,
      << PatFolderBadCls >>,
      << PatBadClsType >>,
      << PatNothing >>,
      << PatClsDF >>,
      << PatFolderAB >> }


(***************************************************************************)
(* Errors                                                                  *)
(***************************************************************************)
Nil == [kind |-> "nil"]

ErrBadPattern == [kind |-> "ErrBadPattern"]

\* "included resource %q is not in the format <type>.<name>"
ErrNotInFormat(included) == [kind |-> "NotInFormat", pattern |-> included]

\* the error a lister returns
ErrLister(name) == [kind |-> "ListerError", of |-> name]

\* "failed to generate %s resources: %w"
ErrFailedToGenerate(name, cause) == [kind |-> "FailedToGenerate", name |-> name, cause |-> cause]

ErrIO(what) == [kind |-> "IO", what |-> what]


(***************************************************************************)
(* filterResources and filterResourceByName                                *)
(***************************************************************************)
\* the first loop of filterResources: the first entry without a "." is an error,
\* otherwise the list of type globs
\* a first loop that does not look for the "."
RECURSIVE allowedTypes_NoCheck(_, _)
allowedTypes_NoCheck(included, allowedResourceTypes) ==
    IF Len(included) = 0 THEN [err |-> Nil, types |-> allowedResourceTypes]
    ELSE allowedTypes_NoCheck(Tail(included),
                              Append(allowedResourceTypes, SplitFirst(Head(included), ".")))

RECURSIVE allowedTypes(_, _)
allowedTypes(included, allowedResourceTypes) ==
    IF Len(included) = 0 THEN [err |-> Nil, types |-> allowedResourceTypes]
    ELSE IF ~Contains(Head(included), ".")
    THEN [err |-> ErrNotInFormat(Head(included)), types |-> << >>]
    ELSE allowedTypes(Tail(included),
                      Append(allowedResourceTypes, SplitFirst(Head(included), ".")))

\* the inner loop: [matched, err] of one resource name against the type globs
RECURSIVE matchAnyType(_, _)
matchAnyType(types, name) ==
    IF Len(types) = 0 THEN [matched |-> FALSE, err |-> FALSE]
    ELSE Call1(LAMBDA m : IF m.err \/ m.matched THEN m
                          ELSE matchAnyType(Tail(types), name),
               Match(Head(types), name))

\* the number of type globs that match the name
RECURSIVE matchCount(_, _)
matchCount(types, name) ==
    IF Len(types) = 0 THEN 0
    ELSE (IF Match(Head(types), name).matched THEN 1 ELSE 0) + matchCount(Tail(types), name)

\* an outer loop whose inner loop lacks the break: a resource is appended once
\* for every type glob that matches it
RECURSIVE filterLoop_NoBreak(_, _, _)
filterLoop_NoBreak(resources, types, acc) ==
    IF Len(resources) = 0 THEN [resources |-> acc, err |-> Nil]
    ELSE Call1(LAMBDA m :
                 IF m.err THEN [resources |-> << >>, err |-> ErrBadPattern]
                 ELSE filterLoop_NoBreak(Tail(resources), types,
                        acc \o [k \in 1..matchCount(types, Head(resources).Name) |-> Head(resources)]),
               matchAnyType(types, Head(resources).Name))

\* the outer loop
RECURSIVE filterLoop(_, _, _)
filterLoop(resources, types, acc) ==
    IF Len(resources) = 0 THEN [resources |-> acc, err |-> Nil]
    ELSE Call1(LAMBDA m :
                 IF m.err THEN [resources |-> << >>, err |-> ErrBadPattern]
                 ELSE filterLoop(Tail(resources), types,
                                 IF m.matched THEN Append(acc, Head(resources)) ELSE acc),
               matchAnyType(types, Head(resources).Name))

filterResources(resources, includedResources) ==
    IF Len(includedResources) = 0 THEN [resources |-> resources, err |-> Nil]
    ELSE Call1(LAMBDA a :
                 IF a.err # Nil THEN [resources |-> << >>, err |-> a.err]
                 ELSE Call3(filterLoop, resources, a.types, << >>),
               allowedTypes(includedResources, << >>))

\* a loop that stops after the first entry of the list
matchAnyIncluded_FirstOnly(included, full) ==
    IF Len(included) = 0 THEN [matched |-> FALSE, err |-> FALSE]
    ELSE Match(Head(included), full)

RECURSIVE matchAnyIncluded(_, _)
matchAnyIncluded(included, full) ==
    IF Len(included) = 0 THEN [matched |-> FALSE, err |-> FALSE]
    ELSE Call1(LAMBDA m : IF m.err \/ m.matched THEN m
                          ELSE matchAnyIncluded(Tail(included), full),
               Match(Head(included), full))

filterResourceByName(resourceType, resourceName, includedResources) ==
    IF Len(includedResources) = 0 THEN [matched |-> TRUE, err |-> FALSE]
    ELSE Call2(matchAnyIncluded, includedResources, resourceType \o << "." >> \o resourceName)

(***************************************************************************)
(* The body of an enumeration task after its lister returned ids           *)
(***************************************************************************)
\* a prefix that is left out for the empty provider as well
cleanedID_SkipEmpty(provider, id) ==
    IF provider # Cloud /\ provider # << >>
    THEN ReplaceAll(provider, "-", "_") \o << "_" >> \o ReplaceAllString(id)
    ELSE ReplaceAllString(id)

cleanedID(provider, id) ==
    IF provider # Cloud
    THEN ReplaceAll(provider, "-", "_") \o << "_" >> \o ReplaceAllString(id)
    ELSE ReplaceAllString(id)

\* the import block: to = <type>.<name>, id = "<id>", provider = grafana.<provider>
importBlock(resourceName, cleaned, id, provider) ==
    [ type |-> resourceName, name |-> cleaned, id |-> id,
      hasProvider |-> provider # << >>, provider |-> provider ]

\* one iteration of for _, id := range ids, after cleanedID was computed
RECURSIVE blocksLoop(_, _, _, _, _)
blocksStep(resourceName, ids, prov, includedResources, blocks, cleaned) ==
    Call1(LAMBDA m :
            IF m.err THEN [blocks |-> << >>, err |-> ErrBadPattern]
            ELSE blocksLoop(resourceName, Tail(ids), prov, includedResources,
                            IF m.matched
                            THEN Append(blocks, importBlock(resourceName, cleaned, Head(ids), prov))
                            ELSE blocks),
          filterResourceByName(resourceName, cleaned, includedResources))

blocksLoop(resourceName, ids, prov, includedResources, blocks) ==
    IF Len(ids) = 0 THEN [blocks |-> blocks, err |-> Nil]
    ELSE blocksStep(resourceName, ids, prov, includedResources, blocks,
                    cleanedID(prov, Head(ids)))

\* generatedFilename(suffix)
ImportsTf   == << "i", "m", "p", "o", "r", "t", "s", ".", "t", "f" >>
ResourcesTf == << "r", "e", "s", "o", "u", "r", "c", "e", "s", ".", "t", "f" >>

\* a file name that leaves the provider out
generatedFilename_NoLabel(provider, suffix) == suffix

generatedFilename(provider, suffix) ==
    IF provider = << >> THEN suffix ELSE provider \o << "-" >> \o suffix

\* sort.Slice(resultsSlice, by resource.Name): the names of a pass are distinct
RECURSIVE insertByName(_, _)
insertByName(r, sorted) ==
    IF Len(sorted) = 0 THEN << r >>
    ELSE IF StrLess(r.resource, Head(sorted).resource) THEN << r >> \o sorted
    ELSE << Head(sorted) >> \o insertByName(r, Tail(sorted))

RECURSIVE sortSlice(_)
sortSlice(s) == IF Len(s) = 0 THEN << >> ELSE insertByName(Head(s), sortSlice(Tail(s)))

\* allBlocks = append(allBlocks, r.blocks...) over the sorted slice
RECURSIVE collect(_)
collect(s) == IF Len(s) = 0 THEN << >> ELSE Head(s).blocks \o collect(Tail(s))

(***************************************************************************)
(* State                                                                   *)
(***************************************************************************)
VARIABLES
    \* Generate
    cfg,               \* *Config: Clobber, Cloud, Grafana, Format, IncludeResources
    dirExists,         \* whether cfg.OutputDir exists (os.Stat)
    files,             \* the files of cfg.OutputDir: name -> content
    gpc,               \* where Generate is
    gerr,              \* what Generate returned
    stacks,            \* the stacks still to be generated (the range loop of line 62)
    effects,           \* what the main goroutine did to the outside, in order
    orphans,           \* goroutines of returned passes that have yet to send
    \* generateImportBlocks
    catalog,           \* the resources argument
    provider,          \* the provider argument
    includedResources, \* the includedResources argument
    ppc,               \* where the calling goroutine of generateImportBlocks is
    perr,              \* what generateImportBlocks returned
    filtered,          \* resources after filterResources
    wg,                \* the sync.WaitGroup counter
    results,           \* the buffer of the results channel
    closed,            \* whether results is closed
    task,              \* per goroutine: pc and the result it will send
    resultsSlice,      \* resultsSlice
    allBlocks,         \* allBlocks
    listerCalls,       \* how often each type's lister was invoked in this pass
    sent,              \* the results in the order they were sent
    crashed            \* the process died of a panic in a goroutine

genVars == << cfg, dirExists, gpc, gerr, stacks >>

passArgs == << catalog, provider, includedResources >>

chanVars == << wg, results, closed, task, sent >>

vars == << cfg, dirExists, files, gpc, gerr, stacks, effects, orphans,
           catalog, provider, includedResources, ppc, perr, filtered, wg, results,
           closed, task, resultsSlice, allBlocks, listerCalls, sent, crashed >>

Names == { Catalog[i].Name : i \in 1..Len(Catalog) }

NoFiles == [f \in {} |-> << >>]

WriteFile(fs, name, content) ==
    [f \in DOMAIN fs \cup {name} |-> IF f = name THEN content ELSE fs[f]]

Effect(op, arg) == [op |-> op, arg |-> arg]

Tasks == DOMAIN task

(***************************************************************************)
(* generateImportBlocks: the calling goroutine up to the launch of the     *)
(* enumeration goroutines (lines 94-174)                                   *)
(***************************************************************************)
FilterAndLaunch ==
    /\ ~crashed
    /\ ppc = "call"
    /\ LET f == filterResources(catalog, includedResources) IN
       IF f.err # Nil
       THEN /\ ppc' = "returned"
            /\ perr' = f.err
            /\ UNCHANGED << filtered, wg, task >>
       ELSE /\ ppc' = "wait"
            /\ perr' = Nil
            /\ filtered' = f.resources
            /\ wg' = Len(f.resources)
            /\ task' = [i \in 1..Len(f.resources) |->
                          [ pc  |-> "start",
                            res |-> [resource |-> f.resources[i].Name, blocks |-> << >>, err |-> Nil] ]]
    /\ UNCHANGED << genVars, passArgs, files, effects, orphans, results, closed,
                    resultsSlice, allBlocks, listerCalls, sent, crashed >>

(***************************************************************************)
(* One enumeration goroutine (lines 110-173)                               *)
(***************************************************************************)
\* a goroutine that forgets wg.Done() when there is no lister
TaskNoLister_NoDone(i) ==
    /\ ~crashed
    /\ task[i].pc = "start"
    /\ ~filtered[i].HasLister
    /\ task' = [task EXCEPT ![i].pc = "sending"]
    /\ UNCHANGED << genVars, passArgs, files, effects, orphans, ppc, perr, filtered, wg,
                    results, closed, resultsSlice, allBlocks, listerCalls, sent, crashed >>

\* lister == nil: wg.Done(), then the send is pending
TaskNoLister(i) ==
    /\ ~crashed
    /\ task[i].pc = "start"
    /\ ~filtered[i].HasLister
    /\ wg' = wg - 1
    /\ task' = [task EXCEPT ![i].pc = "sending"]
    /\ UNCHANGED << genVars, passArgs, files, effects, orphans, ppc, perr, filtered,
                    results, closed, resultsSlice, allBlocks, listerCalls, sent, crashed >>

\* a goroutine that gives up when another one has already failed
TaskInvokeLister_FailFast(i) ==
    /\ ~crashed
    /\ task[i].pc = "start"
    /\ filtered[i].HasLister
    /\ \A j \in Tasks : task[j].res.err = Nil
    /\ listerCalls' = [listerCalls EXCEPT ![filtered[i].Name] = @ + 1]
    /\ task' = [task EXCEPT ![i].pc = "listing"]
    /\ UNCHANGED << genVars, passArgs, files, effects, orphans, ppc, perr, filtered,
                    wg, results, closed, resultsSlice, allBlocks, sent, crashed >>

\* ids, err := lister(ctx, client, listerData): the call is made
TaskInvokeLister(i) ==
    /\ ~crashed
    /\ task[i].pc = "start"
    /\ filtered[i].HasLister
    /\ listerCalls' = [listerCalls EXCEPT ![filtered[i].Name] = @ + 1]
    /\ task' = [task EXCEPT ![i].pc = "listing"]
    /\ UNCHANGED << genVars, passArgs, files, effects, orphans, ppc, perr, filtered,
                    wg, results, closed, resultsSlice, allBlocks, sent, crashed >>

\* the lister returned an error: wg.Done(), then the send is pending
TaskListerError(i) ==
    /\ ~crashed
    /\ task[i].pc = "listing"
    /\ wg' = wg - 1
    /\ task' = [task EXCEPT ![i].pc = "sending",
                            ![i].res.err = ErrLister(filtered[i].Name)]
    /\ UNCHANGED << genVars, passArgs, files, effects, orphans, ppc, perr, filtered,
                    results, closed, resultsSlice, allBlocks, listerCalls, sent, crashed >>

\* the lister returned ids: the blocks are built (or the name filter fails),
\* wg.Done(), then the send is pending
TaskListerOK(i) ==
    /\ ~crashed
    /\ task[i].pc = "listing"
    /\ LET b == blocksLoop(filtered[i].Name, RemoteIDs(filtered[i].Name), provider,
                           includedResources, << >>)
       IN  task' = [task EXCEPT ![i].pc = "sending",
                                ![i].res.blocks = b.blocks,
                                ![i].res.err = b.err]
    /\ wg' = wg - 1
    /\ UNCHANGED << genVars, passArgs, files, effects, orphans, ppc, perr, filtered,
                    results, closed, resultsSlice, allBlocks, listerCalls, sent, crashed >>

\* results <- result{...} on the open channel (capacity len(resources))
TaskSend(i) ==
    /\ ~crashed
    /\ task[i].pc = "sending"
    /\ ~closed
    /\ Len(results) < Len(filtered)
    /\ results' = Append(results, task[i].res)
    /\ sent' = Append(sent, task[i].res)
    /\ task' = [task EXCEPT ![i].pc = "finished"]
    /\ UNCHANGED << genVars, passArgs, files, effects, orphans, ppc, perr, filtered,
                    wg, closed, resultsSlice, allBlocks, listerCalls, crashed >>

\* results <- result{...} on the closed channel: panic, the process dies
TaskSendOnClosed(i) ==
    /\ ~crashed
    /\ task[i].pc = "sending"
    /\ closed
    /\ crashed' = TRUE
    /\ task' = [task EXCEPT ![i].pc = "panicked"]
    /\ UNCHANGED << genVars, passArgs, files, effects, orphans, ppc, perr, filtered,
                    wg, results, closed, resultsSlice, allBlocks, listerCalls, sent >>

(***************************************************************************)
(* generateImportBlocks: the calling goroutine from the join on            *)
(* (lines 176-205)                                                         *)
(***************************************************************************)
\* wg.Wait() returns
WgWait ==
    /\ ~crashed
    /\ ppc = "wait"
    /\ wg = 0
    /\ ppc' = "close"
    /\ UNCHANGED << genVars, passArgs, files, effects, orphans, perr, filtered, chanVars,
                    resultsSlice, allBlocks, listerCalls, crashed >>

\* close(results)
CloseResults ==
    /\ ~crashed
    /\ ppc = "close"
    /\ closed' = TRUE
    /\ resultsSlice' = << >>
    /\ ppc' = "range"
    /\ UNCHANGED << genVars, passArgs, files, effects, orphans, perr, filtered, wg,
                    results, task, sent, allBlocks, listerCalls, crashed >>

\* a receive that takes the value sent last
Receive_Last(ch) == ch[Len(ch)]

\* r := <-results: the values are received in the order they were sent
Receive(ch) == Head(ch)

\* one iteration of for r := range results
RangeReceive ==
    /\ ~crashed
    /\ ppc = "range"
    /\ Len(results) > 0
    /\ LET r == Receive(results) IN
       /\ results' = Tail(results)
       /\ IF r.err # Nil
          THEN /\ ppc' = "returned"
               /\ perr' = ErrFailedToGenerate(r.resource, r.err)
               /\ UNCHANGED resultsSlice
          ELSE /\ resultsSlice' = Append(resultsSlice, r)
               /\ UNCHANGED << ppc, perr >>
    /\ UNCHANGED << genVars, passArgs, files, effects, orphans, filtered, wg, closed,
                    task, sent, allBlocks, listerCalls, crashed >>

\* the closed channel is drained: sort.Slice and the collection of allBlocks
RangeEnd ==
    /\ ~crashed
    /\ ppc = "range"
    /\ Len(results) = 0
    /\ closed
    /\ resultsSlice' = sortSlice(resultsSlice)
    /\ allBlocks' = collect(sortSlice(resultsSlice))
    /\ ppc' = "write"
    /\ UNCHANGED << genVars, passArgs, files, effects, orphans, perr, filtered, chanVars,
                    listerCalls, crashed >>

\* writeBlocks(generatedFilename("imports.tf"), allBlocks...)
WriteImports ==
    /\ ~crashed
    /\ ppc = "write"
    /\ \E ok \in BOOLEAN :
         IF ok
         THEN /\ files' = WriteFile(files, generatedFilename(provider, ImportsTf),
                                    [kind |-> "imports", blocks |-> allBlocks])
              /\ effects' = Append(effects, Effect("writeImports", generatedFilename(provider, ImportsTf)))
              /\ ppc' = "plan"
              /\ UNCHANGED perr
         ELSE /\ ppc' = "returned"
              /\ perr' = ErrIO("writeBlocks")
              /\ UNCHANGED << files, effects >>
    /\ UNCHANGED << genVars, passArgs, orphans, filtered, chanVars, resultsSlice,
                    allBlocks, listerCalls, crashed >>

\* runTerraform(outPath, "plan", "-generate-config-out="+generatedFilename("resources.tf"))
TerraformPlan ==
    /\ ~crashed
    /\ ppc = "plan"
    /\ effects' = Append(effects, Effect("plan", generatedFilename(provider, ResourcesTf)))
    /\ \E ok \in BOOLEAN :
         IF ok
         THEN /\ files' = WriteFile(files, generatedFilename(provider, ResourcesTf),
                                    [kind |-> "resources", sorted |-> FALSE])
              /\ ppc' = "sort"
              /\ UNCHANGED perr
         ELSE /\ ppc' = "returned"
              /\ perr' = [kind |-> "FailedToGenerateResources", cause |-> ErrIO("terraform plan")]
              /\ UNCHANGED files
    /\ UNCHANGED << genVars, passArgs, orphans, filtered, chanVars, resultsSlice,
                    allBlocks, listerCalls, crashed >>

\* return sortResourcesFile(generatedFilename("resources.tf"))
SortResourcesFile ==
    /\ ~crashed
    /\ ppc = "sort"
    /\ ppc' = "returned"
    /\ \E ok \in BOOLEAN :
         IF ok
         THEN /\ files' = WriteFile(files, generatedFilename(provider, ResourcesTf),
                                    [kind |-> "resources", sorted |-> TRUE])
              /\ effects' = Append(effects, Effect("sortResources", generatedFilename(provider, ResourcesTf)))
              /\ perr' = Nil
         ELSE /\ perr' = ErrIO("sortResourcesFile")
              /\ UNCHANGED << files, effects >>
    /\ UNCHANGED << genVars, passArgs, orphans, filtered, chanVars, resultsSlice,
                    allBlocks, listerCalls, crashed >>

TaskStep ==
    \E i \in Tasks :
        \/ TaskNoLister(i)
        \/ TaskInvokeLister(i)
        \/ TaskListerError(i)
        \/ TaskListerOK(i)
        \/ TaskSend(i)
        \/ TaskSendOnClosed(i)

PassNext ==
    \/ FilterAndLaunch
    \/ TaskStep
    \/ WgWait
    \/ CloseResults
    \/ RangeReceive
    \/ RangeEnd
    \/ WriteImports
    \/ TerraformPlan
    \/ SortResourcesFile

(***************************************************************************)
(* generateImportBlocks called on its own: the arguments are drawn         *)
(***************************************************************************)
NoConfig == [Clobber |-> FALSE, Cloud |-> FALSE, Grafana |-> FALSE,
             Format |-> "hcl", IncludeResources |-> << >>]

PassInit ==
    /\ cfg = NoConfig
    /\ dirExists = TRUE
    /\ files = NoFiles
    /\ gpc = "none"
    /\ gerr = Nil
    /\ stacks = << >>
    /\ effects = << >>
    /\ orphans = 0
    /\ catalog \in Catalogs
    /\ provider \in Providers
    /\ includedResources \in PatternLists
    /\ ppc = "call"
    /\ perr = Nil
    /\ filtered = << >>
    /\ wg = 0
    /\ results = << >>
    /\ closed = FALSE
    /\ task = << >>
    /\ resultsSlice = << >>
    /\ allBlocks = << >>
    /\ listerCalls = [n \in Names |-> 0]
    /\ sent = << >>
    /\ crashed = FALSE

SpecPass == PassInit /\ [][PassNext]_vars

(***************************************************************************)
(* The Go scheduler runs every runnable goroutine eventually: the calling  *)
(* goroutine and each goroutine started at line 110 take their next step   *)
(* when it stays possible; a lister that was invoked returns.              *)
(***************************************************************************)
MainStep ==
    \/ FilterAndLaunch
    \/ WgWait
    \/ CloseResults
    \/ RangeReceive
    \/ RangeEnd
    \/ WriteImports
    \/ TerraformPlan
    \/ SortResourcesFile

GoroutineStep(i) ==
    /\ i \in Tasks
    /\ \/ TaskNoLister(i)
       \/ TaskInvokeLister(i)
       \/ TaskListerError(i)
       \/ TaskListerOK(i)
       \/ TaskSend(i)
       \/ TaskSendOnClosed(i)

FairScheduling ==
    /\ WF_vars(MainStep)
    /\ \A i \in 1..Len(Catalog) : WF_vars(GoroutineStep(i))

SpecPassFair == PassInit /\ [][PassNext]_vars /\ FairScheduling

(***************************************************************************)
(* Generate (lines 24-83)                                                  *)
(***************************************************************************)
ProviderTf == << "p", "r", "o", "v", "i", "d", "e", "r", ".", "t", "f" >>
OldFile    == << "o", "l", "d", ".", "t", "f" >>

\* the stacks a Grafana Cloud organisation may hold
StackA == [slug |-> << "a" >>]
StackB == [slug |-> << "b" >>]
StackC == [slug |-> << "c" >>]
AllStacks == << StackA, StackB, StackC >>

\* "output dir %q already exists. Use the clobber option to delete it"
ErrOutputExists == [kind |-> "OutputExists"]

\* "crossplane output format is not yet supported"
ErrNotSupported == [kind |-> "NotSupported", format |-> "crossplane"]

ErrWrapped(what, cause) == [kind |-> "Wrapped", what |-> what, cause |-> cause]

\* generateCloudResources: discovers the stacks of the organisation, or fails
generateCloudResources ==
    { [err |-> ErrIO("cloud"), stacks |-> << >>] }
    \cup { [err |-> Nil, stacks |-> Prefix(AllStacks, n)] : n \in 0..MaxStacks }

\* generateGrafanaResources: one pass of generateImportBlocks over the catalog
\* under the given environment label
generateGrafanaResources(label) ==
    [catalog |-> Catalog, provider |-> label, includedResources |-> cfg.IncludeResources]

Return(err) ==
    /\ gpc' = "returned"
    /\ gerr' = err

\* the goroutines of the last pass that have yet to send
Pending == Cardinality({ i \in Tasks : task[i].pc = "sending" })

\* the call of generateGrafanaResources: a new pass begins
CallPass(label) ==
    LET args == generateGrafanaResources(label) IN
    /\ catalog' = args.catalog
    /\ provider' = args.provider
    /\ includedResources' = args.includedResources
    /\ ppc' = "call"
    /\ perr' = Nil
    /\ orphans' = orphans + Pending
    /\ filtered' = << >>
    /\ wg' = 0
    /\ results' = << >>
    /\ closed' = FALSE
    /\ task' = << >>
    /\ resultsSlice' = << >>
    /\ allBlocks' = << >>
    /\ listerCalls' = [n \in Names |-> 0]
    /\ sent' = << >>

passVars == << catalog, provider, includedResources, ppc, perr, orphans, filtered, wg,
               results, closed, task, resultsSlice, allBlocks, listerCalls, sent >>

\* a preparation that goes on when the directory exists and clobber is unset
PrepareDir_NoExistsCheck ==
    /\ ~crashed
    /\ gpc = "start"
    /\ IF dirExists /\ cfg.Clobber
       THEN \E ok \in BOOLEAN :
              IF ok
              THEN /\ files' = NoFiles
                   /\ dirExists' = FALSE
                   /\ effects' = Append(effects, Effect("RemoveAll", << >>))
                   /\ gpc' = "mkdir"
                   /\ UNCHANGED gerr
              ELSE /\ Return(ErrWrapped("failed to delete", ErrIO("RemoveAll")))
                   /\ UNCHANGED << files, dirExists, effects >>
       ELSE /\ gpc' = "mkdir"
            /\ UNCHANGED << files, dirExists, effects, gerr >>
    /\ UNCHANGED << cfg, stacks, passVars, crashed >>

\* lines 25-32: os.Stat, os.RemoveAll
PrepareDir ==
    /\ ~crashed
    /\ gpc = "start"
    /\ IF dirExists /\ cfg.Clobber
       THEN \E ok \in BOOLEAN :
              IF ok
              THEN /\ files' = NoFiles
                   /\ dirExists' = FALSE
                   /\ effects' = Append(effects, Effect("RemoveAll", << >>))
                   /\ gpc' = "mkdir"
                   /\ UNCHANGED gerr
              ELSE /\ Return(ErrWrapped("failed to delete", ErrIO("RemoveAll")))
                   /\ UNCHANGED << files, dirExists, effects >>
       ELSE IF dirExists /\ ~cfg.Clobber
       THEN /\ Return(ErrOutputExists)
            /\ UNCHANGED << files, dirExists, effects >>
       ELSE /\ gpc' = "mkdir"
            /\ UNCHANGED << files, dirExists, effects, gerr >>
    /\ UNCHANGED << cfg, stacks, passVars, crashed >>

\* an os.MkdirAll whose error is dropped
MkdirAll_IgnoreError ==
    /\ ~crashed
    /\ gpc = "mkdir"
    /\ \E ok \in BOOLEAN :
         IF ok
         THEN /\ dirExists' = TRUE
              /\ effects' = Append(effects, Effect("MkdirAll", << >>))
         ELSE UNCHANGED << dirExists, effects >>
    /\ gpc' = "provider"
    /\ UNCHANGED << cfg, files, gerr, stacks, passVars, crashed >>

\* lines 34-37: os.MkdirAll
MkdirAll ==
    /\ ~crashed
    /\ gpc = "mkdir"
    /\ \E ok \in BOOLEAN :
         IF ok
         THEN /\ dirExists' = TRUE
              /\ effects' = Append(effects, Effect("MkdirAll", << >>))
              /\ gpc' = "provider"
              /\ UNCHANGED gerr
         ELSE /\ Return(ErrWrapped("failed to create output directory", ErrIO("MkdirAll")))
              /\ UNCHANGED << dirExists, effects >>
    /\ UNCHANGED << cfg, files, stacks, passVars, crashed >>

\* lines 39-49: provider.tf; a failure ends the process (log.Fatal)
WriteProvider ==
    /\ ~crashed
    /\ gpc = "provider"
    /\ \E ok \in BOOLEAN :
         IF ok
         THEN /\ files' = WriteFile(files, ProviderTf, [kind |-> "provider"])
              /\ effects' = Append(effects, Effect("writeProvider", ProviderTf))
              /\ gpc' = "init"
         ELSE /\ gpc' = "exited"
              /\ UNCHANGED << files, effects >>
    /\ UNCHANGED << cfg, dirExists, gerr, stacks, passVars, crashed >>

\* lines 51-54: terraform init
TerraformInit ==
    /\ ~crashed
    /\ gpc = "init"
    /\ effects' = Append(effects, Effect("init", << >>))
    /\ \E ok \in BOOLEAN :
         IF ok
         THEN /\ gpc' = "cloud"
              /\ UNCHANGED gerr
         ELSE Return(ErrWrapped("failed to run terraform init", ErrIO("terraform init")))
    /\ UNCHANGED << cfg, dirExists, files, stacks, passVars, crashed >>

\* lines 56-60: generateCloudResources
CloudResources ==
    /\ ~crashed
    /\ gpc = "cloud"
    /\ IF cfg.Cloud
       THEN /\ effects' = Append(effects, Effect("generateCloudResources", << >>))
            /\ \E r \in generateCloudResources :
                 IF r.err # Nil
                 THEN /\ Return(r.err)
                      /\ UNCHANGED stacks
                 ELSE /\ stacks' = r.stacks
                      /\ gpc' = "stacks"
                      /\ UNCHANGED gerr
       ELSE /\ gpc' = "grafana"
            /\ UNCHANGED << effects, stacks, gerr >>
    /\ UNCHANGED << cfg, dirExists, files, passVars, crashed >>

\* line 63: generateGrafanaResources is called for the next stack
StackPassCall ==
    /\ ~crashed
    /\ gpc = "stacks"
    /\ Len(stacks) > 0
    /\ CallPass(StackPrefix \o Head(stacks).slug)
    /\ gpc' = "stackpass"
    /\ UNCHANGED << cfg, dirExists, files, gerr, stacks, effects, crashed >>

\* lines 63-65: the pass of a stack returned
StackPassReturn ==
    /\ ~crashed
    /\ gpc = "stackpass"
    /\ ppc = "returned"
    /\ IF perr # Nil
       THEN /\ Return(perr)
            /\ UNCHANGED stacks
       ELSE /\ stacks' = Tail(stacks)
            /\ gpc' = "stacks"
            /\ UNCHANGED gerr
    /\ UNCHANGED << cfg, dirExists, files, effects, passVars, crashed >>

\* line 62: the range over stacks ends
StacksDone ==
    /\ ~crashed
    /\ gpc = "stacks"
    /\ Len(stacks) = 0
    /\ gpc' = "grafana"
    /\ UNCHANGED << cfg, dirExists, files, gerr, stacks, effects, passVars, crashed >>

\* lines 69-70: generateGrafanaResources is called for cfg.Grafana
GrafanaPassCall ==
    /\ ~crashed
    /\ gpc = "grafana"
    /\ cfg.Grafana
    /\ CallPass(<< >>)
    /\ gpc' = "grafanapass"
    /\ UNCHANGED << cfg, dirExists, files, gerr, stacks, effects, crashed >>

\* line 69: cfg.Grafana == nil
GrafanaSkip ==
    /\ ~crashed
    /\ gpc = "grafana"
    /\ ~cfg.Grafana
    /\ gpc' = "format"
    /\ UNCHANGED << cfg, dirExists, files, gerr, stacks, effects, passVars, crashed >>

\* lines 70-72: the pass of cfg.Grafana returned
GrafanaPassReturn ==
    /\ ~crashed
    /\ gpc = "grafanapass"
    /\ ppc = "returned"
    /\ IF perr # Nil
       THEN Return(perr)
       ELSE /\ gpc' = "format"
            /\ UNCHANGED gerr
    /\ UNCHANGED << cfg, dirExists, files, stacks, effects, passVars, crashed >>

\* a format handling that lets the crossplane format fall through to success
FormatOutput_CrossplaneOK ==
    /\ ~crashed
    /\ gpc = "format"
    /\ IF cfg.Format = "json"
       THEN /\ effects' = Append(effects, Effect("convertToTFJSON", << >>))
            /\ \E ok \in BOOLEAN : Return(IF ok THEN Nil ELSE ErrIO("convertToTFJSON"))
       ELSE /\ Return(Nil)
            /\ UNCHANGED effects
    /\ UNCHANGED << cfg, dirExists, files, stacks, passVars, crashed >>

\* lines 75-82: the output format
FormatOutput ==
    /\ ~crashed
    /\ gpc = "format"
    /\ IF cfg.Format = "json"
       THEN /\ effects' = Append(effects, Effect("convertToTFJSON", << >>))
            /\ \E ok \in BOOLEAN : Return(IF ok THEN Nil ELSE ErrIO("convertToTFJSON"))
       ELSE IF cfg.Format = "crossplane"
       THEN /\ Return(ErrNotSupported)
            /\ UNCHANGED effects
       ELSE /\ Return(Nil)
            /\ UNCHANGED effects
    /\ UNCHANGED << cfg, dirExists, files, stacks, passVars, crashed >>

\* a goroutine of an earlier pass sends on its closed channel: panic
OrphanSendOnClosed ==
    /\ ~crashed
    /\ orphans > 0
    /\ crashed' = TRUE
    /\ orphans' = orphans - 1
    /\ UNCHANGED << genVars, files, effects, passArgs, ppc, perr, filtered, chanVars,
                    resultsSlice, allBlocks, listerCalls >>

GenerateNext ==
    \/ PrepareDir
    \/ MkdirAll
    \/ WriteProvider
    \/ TerraformInit
    \/ CloudResources
    \/ StackPassCall
    \/ StackPassReturn
    \/ StacksDone
    \/ GrafanaPassCall
    \/ GrafanaSkip
    \/ GrafanaPassReturn
    \/ FormatOutput
    \/ OrphanSendOnClosed

Formats == { "hcl", "json", "crossplane" }

\* the inclusion lists Generate is configured with
IncludeLists ==
    { << >>, << PatFolderAll >>, << PatFolderAll, PatNoDotTeam >>, << PatNoDotFolder, PatAllAll >> }

Configs ==
    [ Clobber : BOOLEAN, Cloud : BOOLEAN, Grafana : BOOLEAN, Format : Formats,
      IncludeResources : IncludeLists ]

Init ==
    /\ cfg \in Configs
    /\ dirExists \in BOOLEAN
    /\ files = (IF dirExists THEN WriteFile(NoFiles, OldFile, [kind |-> "old"]) ELSE NoFiles)
    /\ gpc = "start"
    /\ gerr = Nil
    /\ stacks = << >>
    /\ effects = << >>
    /\ orphans = 0
    /\ catalog = << >>
    /\ provider = << >>
    /\ includedResources = << >>
    /\ ppc = "idle"
    /\ perr = Nil
    /\ filtered = << >>
    /\ wg = 0
    /\ results = << >>
    /\ closed = FALSE
    /\ task = << >>
    /\ resultsSlice = << >>
    /\ allBlocks = << >>
    /\ listerCalls = [n \in Names |-> 0]
    /\ sent = << >>
    /\ crashed = FALSE

Next == GenerateNext \/ PassNext

Spec == Init /\ [][Next]_vars

(***************************************************************************)
(* Vocabulary of the properties                                            *)
(***************************************************************************)
Range(q) == { q[i] : i \in 1..Len(q) }

\* the import blocks built by the goroutines of the pass, collected or written
EmittedBlocks ==
    UNION { Range(task[i].res.blocks) : i \in Tasks }
    \cup Range(allBlocks)
    \cup UNION { Range(files[f].blocks) : f \in { g \in DOMAIN files : files[g].kind = "imports" } }

PassOps == { "writeImports", "plan", "sortResources" }

\* what the current pass did to the outside
PassEffects == { k \in 1..Len(effects) :
                   /\ effects[k].op \in PassOps
                   /\ effects[k].arg \in { generatedFilename(provider, ImportsTf),
                                           generatedFilename(provider, ResourcesTf) } }

ImportsWritten == \E k \in PassEffects : effects[k].op = "writeImports"

ImportsFile == files[generatedFilename(provider, ImportsTf)]

\* the goroutine is past its lister (or had none)
Reported(i) == task[i].pc \in { "sending", "finished", "panicked" }

ListerFailed(i) == Reported(i) /\ task[i].res.err.kind = "ListerError"

NoListerInvoked == \A n \in Names : listerCalls[n] = 0

(***************************************************************************)
(* C1: the results channel is closed only after every launched goroutine   *)
(* has sent its result, and no goroutine sends on the closed channel.      *)
(* The goroutines call wg.Done() before they send, so this fails.          *)
(***************************************************************************)
C1_CloseAfterAllSent ==
    /\ closed => \A i \in Tasks : task[i].pc = "finished"
    /\ \A i \in Tasks : task[i].pc # "panicked"

(***************************************************************************)
(* C2: when exactly one lister failed and all the others succeeded, the    *)
(* pass wrote no imports file, ran no terraform plan, sorted nothing, and  *)
(* what it returns is the error naming the failing type.                   *)
(***************************************************************************)
OneFailedOthersSucceeded ==
    /\ Tasks # {}
    /\ \A i \in Tasks : Reported(i)
    /\ Cardinality({ i \in Tasks : ListerFailed(i) }) = 1
    /\ \A i \in Tasks : ~ListerFailed(i) => task[i].res.err = Nil

C2_PartialFailureEmitsNothing ==
    OneFailedOthersSucceeded =>
        /\ PassEffects = {}
        /\ generatedFilename(provider, ImportsTf) \notin DOMAIN files
        /\ ppc = "returned" =>
             \E i \in Tasks : /\ ListerFailed(i)
                              /\ perr = ErrFailedToGenerate(filtered[i].Name,
                                                            ErrLister(filtered[i].Name))

(***************************************************************************)
(* C3 as stated: when several listers failed, the error returned is that   *)
(* of the failing type that comes first in catalog order.                  *)
(***************************************************************************)
SeveralFailed == Cardinality({ i \in Tasks : ListerFailed(i) }) >= 2

ReturnedEnumerationError == ppc = "returned" /\ perr.kind = "FailedToGenerate"

FirstFailedInCatalog == CHOOSE i \in Tasks : ListerFailed(i) /\ \A j \in Tasks : ListerFailed(j) => i <= j

C3_FirstInCatalogOrder ==
    (ReturnedEnumerationError /\ SeveralFailed) =>
        perr.name = filtered[FirstFailedInCatalog].Name

(***************************************************************************)
(* C3 amended: the error returned is that of the first failed result in    *)
(* the order in which the results were sent on the channel.                *)
(***************************************************************************)
C3_FirstSentError ==
    ReturnedEnumerationError =>
        \E k \in 1..Len(sent) :
            /\ sent[k].err # Nil
            /\ \A j \in 1..(k - 1) : sent[j].err = Nil
            /\ perr.name = sent[k].resource
            /\ perr.cause = sent[k].err

C3_Witness ==
    /\ ReturnedEnumerationError
    /\ SeveralFailed
    /\ perr.name # filtered[FirstFailedInCatalog].Name

(***************************************************************************)
(* C4: the imports file holds the blocks of the retained types in          *)
(* ascending type-name order, each type's blocks in the order of its       *)
(* lister's identifiers, whatever the order of the catalog and of the      *)
(* completion of the goroutines.                                           *)
(***************************************************************************)
\* Catalog is in ascending name order
RECURSIVE ExpectedBlocks(_)
ExpectedBlocks(rs) ==
    IF Len(rs) = 0 THEN << >>
    ELSE (IF Head(rs).HasLister
          THEN blocksLoop(Head(rs).Name, RemoteIDs(Head(rs).Name), provider,
                          includedResources, << >>).blocks
          ELSE << >>)
         \o ExpectedBlocks(Tail(rs))

C4_ImportsDeterministic ==
    ImportsWritten =>
        ImportsFile.blocks = ExpectedBlocks(filterResources(Catalog, includedResources).resources)

(***************************************************************************)
(* C5 as stated: the local name carries the alias prefix only when the     *)
(* alias is neither empty nor "cloud"; otherwise it is the sanitized       *)
(* identifier itself.                                                      *)
(***************************************************************************)
AllowedChars ==
    { "a", "b", "c", "d", "e", "f", "g", "h", "i", "j", "k", "l", "m",
      "n", "o", "p", "q", "r", "s", "t", "u", "v", "w", "x", "y", "z",
      "A", "B", "Z", "0", "1", "2", "9", "_", "-" }

Sanitized(id) == [k \in 1..Len(id) |-> IF id[k] \in AllowedChars THEN id[k] ELSE "_"]

Underscored(alias) == [k \in 1..Len(alias) |-> IF alias[k] = "-" THEN "_" ELSE alias[k]]

C5_PrefixOnlyForNonEmptyAlias ==
    \A b \in EmittedBlocks :
        b.name = IF provider # << >> /\ provider # Cloud
                 THEN Underscored(provider) \o << "_" >> \o Sanitized(b.id)
                 ELSE Sanitized(b.id)

(***************************************************************************)
(* C5 amended: the local name carries the alias prefix whenever the alias  *)
(* is not "cloud", the empty alias included (the name is then "_" and the  *)
(* sanitized identifier); with "cloud" it is the sanitized identifier.     *)
(***************************************************************************)
C5_PrefixUnlessCloud ==
    \A b \in EmittedBlocks :
        b.name = IF provider # Cloud
                 THEN Underscored(provider) \o << "_" >> \o Sanitized(b.id)
                 ELSE Sanitized(b.id)

C5_Witness ==
    /\ provider = << >>
    /\ includedResources = << >>
    /\ ImportsWritten
    /\ \E b \in Range(ImportsFile.blocks) :
         b.type = Dashboard /\ b.id = << "a", "b", "c" >> /\ b.name = << "_", "a", "b", "c" >>
    /\ \E b \in Range(ImportsFile.blocks) :
         b.type = Folder /\ b.id = << "x", "y", "z" >> /\ b.name = << "_", "x", "y", "z" >>

(***************************************************************************)
(* C6: the local name ends with the identifier in which exactly the        *)
(* characters outside [A-Za-z0-9_-] are replaced by "_", one for one, and  *)
(* the id of the block is the identifier the lister returned.              *)
(***************************************************************************)
Suffix(q, n) == SubSeq(q, Len(q) - n + 1, Len(q))

C6_SanitizedNameOriginalId ==
    \A b \in EmittedBlocks :
        /\ b.id \in Range(RemoteIDs(b.type))
        /\ Len(b.name) >= Len(b.id)
        /\ \A k \in 1..Len(b.id) :
             Suffix(b.name, Len(b.id))[k] = IF b.id[k] \in AllowedChars THEN b.id[k] ELSE "_"

C6_Witness ==
    \E b \in EmittedBlocks :
        /\ b.id = << "m", "y", "/", "w", "e", "i", "r", "d", " ", "i", "d" >>
        /\ Suffix(b.name, 11) = << "m", "y", "_", "w", "e", "i", "r", "d", "_", "i", "d" >>
        /\ provider # << >>
        /\ includedResources # << >>

(***************************************************************************)
(* C7: the whole local name of a block, alias prefix included, has only    *)
(* characters of [A-Za-z0-9_-].  The alias is not sanitized, only its "-"  *)
(* are replaced, so this fails for an alias with another character.        *)
(***************************************************************************)
C7_LocalNameCharset ==
    \A b \in EmittedBlocks : \A k \in 1..Len(b.name) : b.name[k] \in AllowedChars

(***************************************************************************)
(* C8: with an entry without "." in the inclusion list, the pass returns   *)
(* the error of the first such entry, having launched no goroutine and     *)
(* invoked no lister, wherever the entry stands in the list.               *)
(***************************************************************************)
HasDot(p) == \E k \in 1..Len(p) : p[k] = "."

Malformed(list) == { k \in 1..Len(list) : ~HasDot(list[k]) }

C8_MalformedBeforeListers ==
    Malformed(includedResources) # {} =>
        /\ NoListerInvoked
        /\ Tasks = {}
        /\ PassEffects = {}
        /\ ppc \in { "idle", "call", "returned" }
        /\ ppc = "returned" =>
             \E k \in Malformed(includedResources) :
                 /\ \A j \in Malformed(includedResources) : k <= j
                 /\ perr = ErrNotInFormat(includedResources[k])

C8_Witness ==
    /\ ppc = "returned"
    /\ perr = ErrNotInFormat(PatNoDotTeam)
    /\ includedResources = << PatFolderAll, PatNoDotTeam >>

(***************************************************************************)
(* C9 as stated: when Generate returns the error of an inclusion entry     *)
(* without ".", it has not removed or created the output directory, not    *)
(* written provider.tf, not run terraform init and not discovered stacks.  *)
(***************************************************************************)
SetupOps == { "RemoveAll", "MkdirAll", "writeProvider", "init", "generateCloudResources" }

ReturnedFilterError == gpc = "returned" /\ gerr.kind = "NotInFormat"

EffectOps == [k \in 1..Len(effects) |-> effects[k].op]

C9_NoWorkBeforeFilterError ==
    ReturnedFilterError =>
        /\ \A k \in 1..Len(effects) : effects[k].op \notin SetupOps
        /\ ProviderTf \notin DOMAIN files

(***************************************************************************)
(* C9 amended: the filter error arises in the first pass, after Generate   *)
(* has removed an existing output directory, created the directory,        *)
(* written provider.tf and run terraform init, in this order; it is the    *)
(* error of the first entry without "."; no pass has invoked a lister,     *)
(* written an imports file or run terraform plan.                          *)
(***************************************************************************)
IsDirSetupOp(o) == o \notin { "RemoveAll", "generateCloudResources" }

C9_FilterErrorAfterSetup ==
    ReturnedFilterError =>
        /\ SelectSeq(EffectOps, IsDirSetupOp) = << "MkdirAll", "writeProvider", "init" >>
        /\ \A k \in 2..Len(effects) : effects[k].op # "RemoveAll"
        /\ dirExists
        /\ DOMAIN files = { ProviderTf }
        /\ NoListerInvoked
        /\ Tasks = {}
        /\ \E k \in Malformed(cfg.IncludeResources) :
             /\ \A j \in Malformed(cfg.IncludeResources) : k <= j
             /\ gerr = ErrNotInFormat(cfg.IncludeResources[k])

C9_Witness ==
    /\ ReturnedFilterError
    /\ cfg.Cloud
    /\ cfg.Clobber
    /\ EffectOps = << "RemoveAll", "MkdirAll", "writeProvider", "init", "generateCloudResources" >>
    /\ provider = StackPrefix \o << "a" >>

(***************************************************************************)
(* C10: with an empty inclusion list the pass works on the whole catalog;  *)
(* with a well-formed one, on exactly the resources whose name matches the *)
(* type glob (the text before the first ".") of some entry, in catalog     *)
(* order and once each; the lister of a resource that is not retained is   *)
(* never invoked.                                                          *)
(***************************************************************************)
\* the text before the first "."
TypeGlob(p) == SubSeq(p, 1, (CHOOSE k \in 1..Len(p) : p[k] = "." /\ \A j \in 1..(k - 1) : p[j] # ".") - 1)

\* the place of the "]" that closes the class opened at i, or 0
ClassClose(g, i) ==
    IF \E k \in (i + 2)..Len(g) : g[k] = "]"
    THEN CHOOSE k \in (i + 2)..Len(g) : g[k] = "]" /\ \A j \in (i + 2)..(k - 1) : g[j] # "]"
    ELSE 0

\* a glob of literals, "?", "*" and classes that list their characters
GoodGlob(g) == \A i \in 1..Len(g) : g[i] = "[" => ClassClose(g, i) # 0

\* shell glob semantics: s from position j on matches g from position i on
RECURSIVE Glob(_, _, _, _)
Glob(g, i, s, j) ==
    IF i > Len(g) THEN j > Len(s)
    ELSE IF g[i] = "*"
    THEN \E j2 \in j..(Len(s) + 1) :
            /\ \A m \in j..(j2 - 1) : s[m] # "/"
            /\ Glob(g, i + 1, s, j2)
    ELSE IF g[i] = "?" THEN j <= Len(s) /\ s[j] # "/" /\ Glob(g, i + 1, s, j + 1)
    ELSE IF g[i] = "["
    THEN /\ j <= Len(s)
         /\ \E m \in (i + 1)..(ClassClose(g, i) - 1) : g[m] = s[j]
         /\ Glob(g, ClassClose(g, i) + 1, s, j + 1)
    ELSE j <= Len(s) /\ s[j] = g[i] /\ Glob(g, i + 1, s, j + 1)

WellFormed(list) ==
    \A k \in 1..Len(list) : HasDot(list[k]) /\ GoodGlob(TypeGlob(list[k]))

Retained(r) ==
    \E k \in 1..Len(includedResources) : Glob(TypeGlob(includedResources[k]), 1, r.Name, 1)

Filtered == ppc \notin { "idle", "call" }

C10_FilterByTypeGlob ==
    /\ (Filtered /\ includedResources = << >>) => filtered = catalog
    /\ (Filtered /\ includedResources # << >> /\ WellFormed(includedResources)) =>
           /\ filtered = SelectSeq(catalog, Retained)
           /\ \A i \in 1..Len(catalog) :
                ~Retained(catalog[i]) => listerCalls[catalog[i].Name] = 0
    /\ \A n \in Names : listerCalls[n] <= 1

C10_Witness ==
    /\ includedResources = << PatFolderAll >>
    /\ catalog = Catalog
    /\ ppc = "returned"
    /\ perr = Nil
    /\ Len(filtered) = 1
    /\ listerCalls[Folder] = 1
    /\ listerCalls[Dashboard] = 0

(***************************************************************************)
(* C11: with a list of well-formed patterns, the goroutine of a type whose *)
(* lister returned identifiers reports no error and exactly the blocks of  *)
(* the identifiers whose "<type>.<local name>" matches some pattern, in    *)
(* the lister's order; the others are dropped.  With an empty list it      *)
(* reports one block for every identifier.                                 *)
(***************************************************************************)
\* the local name the block of an identifier carries
LocalName(id) ==
    (IF provider # Cloud THEN Underscored(provider) \o << "_" >> ELSE << >>) \o Sanitized(id)

\* the identifier passes the second filter
Survives(type, id) ==
    \/ includedResources = << >>
    \/ \E k \in 1..Len(includedResources) :
          Glob(includedResources[k], 1, type \o << "." >> \o LocalName(id), 1)

SurvivingIDs(type) == SelectSeq(RemoteIDs(type), LAMBDA id : Survives(type, id))

GoodPatterns(list) == \A k \in 1..Len(list) : HasDot(list[k]) /\ GoodGlob(list[k])

\* the goroutine's lister returned identifiers and the goroutine is past its loop
Enumerated(i) ==
    Reported(i) /\ filtered[i].HasLister /\ task[i].res.err.kind # "ListerError"

BlockIDs(blocks) == [k \in 1..Len(blocks) |-> blocks[k].id]

C11_SecondStageFilter ==
    GoodPatterns(includedResources) =>
        \A i \in Tasks :
            Enumerated(i) =>
                /\ task[i].res.err = Nil
                /\ BlockIDs(task[i].res.blocks) = SurvivingIDs(filtered[i].Name)
                /\ \A k \in 1..Len(task[i].res.blocks) :
                     /\ task[i].res.blocks[k].type = filtered[i].Name
                     /\ task[i].res.blocks[k].name = LocalName(task[i].res.blocks[k].id)

C11_Witness ==
    /\ includedResources = << PatFolderAB >>
    /\ \E i \in Tasks :
         /\ Enumerated(i)
         /\ filtered[i].Name = Folder
         /\ << "x", "y", "z" >> \in Range(RemoteIDs(Folder))
         /\ << "x", "y", "z" >> \notin Range(BlockIDs(task[i].res.blocks))
         /\ << "a", ".", "b" >> \in Range(BlockIDs(task[i].res.blocks))
         /\ task[i].res.err = Nil

(***************************************************************************)
(* C12: no fail-fast.  A lister is invoked at most once; a goroutine that  *)
(* has yet to invoke its lister, or whose lister has yet to return, can    *)
(* always take its step, whatever the other goroutines reported; and once  *)
(* the join has returned, the lister of every retained type that has one   *)
(* was invoked exactly once.                                               *)
(***************************************************************************)
JoinReturned == Tasks # {} /\ ppc \notin { "idle", "call", "wait" }

C12_NoFailFast ==
    /\ \A n \in Names : listerCalls[n] <= 1
    /\ \A i \in Tasks :
         /\ task[i].pc = "start" => ENABLED (TaskInvokeLister(i) \/ TaskNoLister(i))
         /\ task[i].pc = "listing" => ENABLED TaskListerError(i) /\ ENABLED TaskListerOK(i)
         /\ listerCalls[filtered[i].Name] =
                IF filtered[i].HasLister /\ task[i].pc # "start" THEN 1 ELSE 0
    /\ JoinReturned => \A i \in Tasks : Reported(i)

C12_Witness ==
    /\ ppc = "returned"
    /\ perr.kind = "FailedToGenerate"
    /\ \E i, j \in Tasks :
         /\ ListerFailed(i)
         /\ task[i].pc = "finished"
         /\ Enumerated(j)
         /\ task[j].pc = "finished"
         /\ task[j].res.err = Nil
         /\ Len(task[j].res.blocks) > 0
         /\ \E k \in 1..Len(sent) : \E m \in (k + 1)..Len(sent) :
              sent[k].resource = filtered[i].Name /\ sent[m].resource = filtered[j].Name

(***************************************************************************)
(* C13: directory preparation.  An existing directory with clobber set is  *)
(* removed and then created again; a missing directory is created; with an *)
(* existing directory and clobber unset Generate returns the output-exists *)
(* error at once, leaving the directory and its files as they were,        *)
(* writing nothing, running no terraform and no pass, and doing nothing    *)
(* afterwards.                                                             *)
(***************************************************************************)
OutputExistsReturned == gpc = "returned" /\ gerr = ErrOutputExists

C13_PrepareStep ==
    /\ (gpc = "start" /\ dirExists /\ ~cfg.Clobber) =>
          /\ gpc' = "returned"
          /\ gerr' = ErrOutputExists
          /\ UNCHANGED << dirExists, files, effects, passVars >>
    /\ (gpc = "start" /\ dirExists /\ cfg.Clobber /\ gpc' = "mkdir") =>
          /\ ~dirExists'
          /\ files' = NoFiles
          /\ effects' = << Effect("RemoveAll", << >>) >>
    /\ (gpc = "start" /\ ~dirExists) =>
          /\ gpc' = "mkdir"
          /\ UNCHANGED << dirExists, files, effects >>
    /\ gpc = "mkdir" => ~dirExists
    /\ (gpc = "mkdir" /\ gpc' = "provider") =>
          /\ dirExists'
          /\ files' = NoFiles
          /\ effects' = Append(effects, Effect("MkdirAll", << >>))
    /\ gpc' \in { "provider", "init", "cloud", "stacks", "stackpass", "grafana",
                  "grafanapass", "format" } =>
          /\ dirExists'
          /\ OldFile \notin DOMAIN files'
          /\ \E k \in 1..Len(effects') : effects'[k].op = "MkdirAll"
    /\ OutputExistsReturned' =>
          /\ dirExists'
          /\ files' = WriteFile(NoFiles, OldFile, [kind |-> "old"])
          /\ effects' = << >>
          /\ ppc' = "idle"
          /\ \A n \in Names : listerCalls'[n] = 0
    /\ OutputExistsReturned => UNCHANGED vars

C13_DirectoryPreparation == [][C13_PrepareStep]_vars

C13_Witness ==
    /\ cfg.Clobber
    /\ gpc = "provider"
    /\ dirExists
    /\ files = NoFiles
    /\ EffectOps = << "RemoveAll", "MkdirAll" >>

(***************************************************************************)
(* C14: Generate writes provider.tf before terraform init, starts a pass   *)
(* only after terraform init succeeded, converts the format only after     *)
(* every pass returned without error, and ends only by returning: when a   *)
(* step fails, nothing more is done and Generate returns that error.       *)
(* The failure of writing provider.tf ends the process with log.Fatal      *)
(* instead, so this fails.                                                 *)
(***************************************************************************)
\* the places of the effects with the given operations
Places(ops) == { k \in 1..Len(effects) : effects[k].op \in ops }

Before(ops1, ops2) == \A k \in Places(ops1), m \in Places(ops2) : k < m

C14_GenerateOrder ==
    /\ Before({ "MkdirAll" }, { "writeProvider" })
    /\ Before({ "writeProvider" }, { "init" })
    /\ Before({ "init" }, PassOps \cup { "generateCloudResources" })
    /\ Before(PassOps, { "convertToTFJSON" })
    /\ (gpc \in { "stackpass", "grafanapass" } \/ Places(PassOps) # {}) =>
          Places({ "writeProvider" }) # {} /\ Places({ "init" }) # {}
    /\ gpc = "format" => ppc \in { "idle", "returned" } /\ perr = Nil
    /\ (gpc = "returned" /\ perr # Nil) => gerr = perr /\ Places({ "convertToTFJSON" }) = {}
    /\ gpc # "exited"

(***************************************************************************)
(* C15: the passes run one after another: for each discovered stack in     *)
(* stack order under the label "stack-<slug>", then one pass with the      *)
(* empty label for a direct Grafana configuration.  What the passes do to  *)
(* the outside (imports file, terraform plan, sort of the resources file)  *)
(* is a prefix of the sequence that lists these three steps label by       *)
(* label, each on the label's own files, so that no file is written by two *)
(* passes; a pass is in progress only inside its call.                     *)
(***************************************************************************)
FileOf(label, suffix) == IF label = << >> THEN suffix ELSE label \o << "-" >> \o suffix

\* the labels of the passes when n stacks were discovered
ExpectedLabels(n) ==
    [k \in 1..(IF cfg.Cloud THEN n ELSE 0) |-> StackPrefix \o AllStacks[k].slug]
    \o (IF cfg.Grafana THEN << << >> >> ELSE << >>)

PassStep(label, k) ==
    CASE k = 1 -> Effect("writeImports", FileOf(label, ImportsTf))
      [] k = 2 -> Effect("plan", FileOf(label, ResourcesTf))
      [] k = 3 -> Effect("sortResources", FileOf(label, ResourcesTf))

ExpectedPassEffects(n) ==
    [j \in 1..(3 * Len(ExpectedLabels(n))) |->
        PassStep(ExpectedLabels(n)[((j - 1) \div 3) + 1], ((j - 1) % 3) + 1)]

IsPrefix(a, b) == Len(a) <= Len(b) /\ a = SubSeq(b, 1, Len(a))

IsPassEffect(e) == e.op \in PassOps

PassEffectSeq == SelectSeq(effects, IsPassEffect)

StackCounts == 0..Len(AllStacks)

Converted == Places({ "convertToTFJSON" }) # {}

AllPassesDone == \E n \in StackCounts : PassEffectSeq = ExpectedPassEffects(n)

C16_FormatAfterPasses ==
    /\ Converted =>
          /\ cfg.Format = "json"
          /\ Places({ "convertToTFJSON" }) = { Len(effects) }
          /\ AllPassesDone
          /\ perr = Nil
          /\ gpc = "returned"
          /\ gerr \in { Nil, ErrIO("convertToTFJSON") }
    /\ (gpc = "returned" /\ gerr = ErrNotSupported) =>
          /\ cfg.Format = "crossplane"
          /\ gerr.format = "crossplane"
          /\ AllPassesDone
          /\ perr = Nil
    /\ (gpc = "returned" /\ gerr = Nil) =>
          /\ AllPassesDone
          /\ perr = Nil
          /\ cfg.Format \in { "hcl", "json" }
          /\ Converted <=> cfg.Format = "json"
    /\ (gpc = "returned" /\ perr # Nil) =>
          /\ gerr = perr
          /\ gerr # ErrNotSupported
          /\ ~Converted

C16_Witness ==
    /\ cfg.Format = "crossplane"
    /\ cfg.Grafana
    /\ gpc = "returned"
    /\ gerr = ErrNotSupported
    /\ ImportsTf \in DOMAIN files
    /\ ResourcesTf \in DOMAIN files
    /\ files[ResourcesTf].sorted

(***************************************************************************)
(* C17: within a pass the imports file is written only after the join and  *)
(* only when no goroutine failed, terraform plan runs only after the       *)
(* imports file was written, the resources file is sorted only after       *)
(* terraform plan succeeded; when terraform plan fails the pass returns    *)
(* that error, wrapped, without sorting, and Generate does nothing more.   *)
(* Because a failed result can miss the closed channel, this fails.        *)
(***************************************************************************)
PlanFailed(e) == e.kind = "FailedToGenerateResources"

C17_MaterializerOrder ==
    /\ (ppc \in { "plan", "sort" } \/ PassEffects # {}) =>
          /\ closed
          /\ \A i \in Tasks : Reported(i) /\ task[i].res.err = Nil
    /\ \E n \in StackCounts : IsPrefix(PassEffectSeq, ExpectedPassEffects(n))
    /\ ppc = "sort" =>
          /\ generatedFilename(provider, ImportsTf) \in DOMAIN files
          /\ generatedFilename(provider, ResourcesTf) \in DOMAIN files
    /\ (ppc = "returned" /\ PlanFailed(perr)) =>
          /\ perr.cause = ErrIO("terraform plan")
          /\ effects[Len(effects)] = Effect("plan", generatedFilename(provider, ResourcesTf))
          /\ generatedFilename(provider, ResourcesTf) \notin DOMAIN files
          /\ gpc = "returned" => gerr = perr

(***************************************************************************)
(* C18: every goroutine decrements the WaitGroup exactly once, when it is  *)
(* past its lister (or has none), and sends at most one result, so the     *)
(* counter is the number of goroutines that have yet to report and is      *)
(* never negative; the channel never holds more than len(resources)        *)
(* results, and a goroutine about to send on the open channel always finds *)
(* room.  A resource without a lister reports no blocks and no error.      *)
(***************************************************************************)
SentBy(i) == { k \in 1..Len(sent) : sent[k].resource = filtered[i].Name }

C18_OneDoneOneSend ==
    /\ wg = Cardinality({ i \in Tasks : ~Reported(i) })
    /\ wg >= 0
    /\ Len(results) <= Len(filtered)
    /\ Len(sent) <= Len(filtered)
    /\ \A i \in Tasks :
         /\ Cardinality(SentBy(i)) = IF task[i].pc = "finished" THEN 1 ELSE 0
         /\ \A k \in SentBy(i) : sent[k] = task[i].res
         /\ (task[i].pc = "sending" /\ ~closed /\ ~crashed) => ENABLED TaskSend(i)
         /\ (Reported(i) /\ ~filtered[i].HasLister) =>
                /\ task[i].res.blocks = << >>
                /\ task[i].res.err = Nil
                /\ listerCalls[filtered[i].Name] = 0

C18_Witness ==
    /\ Len(filtered) = 3
    /\ \A i \in Tasks : task[i].pc = "finished"
    /\ Len(sent) = 3
    /\ wg = 0
    /\ \E i \in Tasks : ListerFailed(i)
    /\ \E i \in Tasks : Enumerated(i) /\ task[i].res.err = Nil
    /\ \E k \in 1..3 : sent[k] = [resource |-> Team, blocks |-> << >>, err |-> Nil]

(***************************************************************************)
(* C19: under fair scheduling the join of a pass is left once every        *)
(* goroutine is past its lister, and the pass then returns, with an error  *)
(* or after its materialization steps.                                     *)
(***************************************************************************)
C19_JoinLiveness ==
    /\ (ppc = "wait") ~> (ppc # "wait")
    /\ <>(ppc = "returned")

\* what the code guarantees: the join is left, and the pass returns unless
\* a goroutine panicked on the closed channel
C19_ReturnsOrPanics ==
    /\ (ppc = "wait") ~> (ppc # "wait")
    /\ <>(ppc = "returned" \/ crashed)

(***************************************************************************)
(* C20: the import blocks one lister call gives rise to have pairwise      *)
(* distinct `to` addresses (resource type and local name), the remote      *)
(* identifiers returned being pairwise distinct; so have the blocks        *)
(* written to the imports file of the pass.                                *)
(***************************************************************************)
Address(b) == << b.type, b.name >>

DistinctAddresses(blocks) ==
    \A k, l \in 1..Len(blocks) :
        Address(blocks[k]) = Address(blocks[l]) => k = l

DistinctIDs(ids) == \A k, l \in 1..Len(ids) : ids[k] = ids[l] => k = l

C20_DistinctAddresses ==
    /\ \A i \in Tasks :
         (Enumerated(i) /\ DistinctIDs(RemoteIDs(filtered[i].Name))) =>
             DistinctAddresses(task[i].res.blocks)
    /\ ImportsWritten => DistinctAddresses(ImportsFile.blocks)

====
